---- MODULE Spec2Model ----
(***************************************************************************)
(* A model of src/src/lib/WireGuard.js: the peer registry kept in          *)
(* this.__configPromise, its persistence to wg0.json / wg0.conf, the       *)
(* reconciliation of the running daemon, and the once-per-minute sweep.    *)
(*                                                                         *)
(* The specifications share the same state and the same pure operators:    *)
(*   Spec        every handler is one action (callers serialise their      *)
(*               calls, file writes and commands succeed unless the        *)
(*               interface is missing);                                    *)
(*   SpecBackup  some handlers of Spec, and restoreConfiguration of what   *)
(*               backupConfiguration returns;                              *)
(*   SpecFaults  handlers one at a time, one of whose file or command      *)
(*               calls may throw;                                          *)
(*   SpecSweeps  the scheduler's sweeps alone, with and without failures,  *)
(*               the sweeps without failure being weakly fair;             *)
(*   SpecAsync   a handler is a chain of steps, one per await, several     *)
(*               calls are in flight at once and every file write or       *)
(*               command may fail.                                         *)
(***************************************************************************)
EXTENDS Integers, Sequences, FiniteSets, TLC

VARIABLES
    configPromise,  \* this.__configPromise: "unset" | "pending" | "resolved" | "rejected"
    config,         \* the object the promise resolves to: [server, clients]
    jsonFile,       \* wg0.json: [kind |-> "absent" | "garbage" | "json", value]
    confFile,       \* wg0.conf: [kind |-> "absent" | "conf", address, peers]
    ifaceUp,        \* whether `wg-quick up wg0` has completed successfully
    daemon,         \* the daemon's peer table: a set of [publicKey, allowedIP]
    now,            \* the wall clock (ms), read by new Date() / Date.now()
    expiresFeature, \* WG_ENABLE_EXPIRES_TIME === 'true'
    linksFeature,   \* WG_ENABLE_ONE_TIME_LINKS === 'true'
    linkIssuedAt,   \* per peer, the Date.now() of its last generateOneTimeLink
    calls,          \* the calls in flight (SpecAsync): a function on Slots
    sweep           \* the scheduler: [busy, skipped]

vars == << configPromise, config, jsonFile, confFile, ifaceUp, daemon, now,
           expiresFeature, linksFeature, linkIssuedAt, calls, sweep >>

(***************************************************************************)
(* Bounds of the model.                                                    *)
(***************************************************************************)
\* how many times the clock advances
MaxTicks == 2

(***************************************************************************)
(* JavaScript values: a field is undefined (absent), null, a Date or a     *)
(* string.  v is the time in ms for a Date and for an ISO date string,     *)
(* and names the token for a one-time link.                                *)
(***************************************************************************)
Undefined == [k |-> "undefined", v |-> 0]
Null == [k |-> "null", v |-> 0]
DateOf(ms) == [k |-> "date", v |-> ms]
IsoOf(ms) == [k |-> "iso", v |-> ms]
StrOf(n) == [k |-> "string", v |-> n]

\* x !== null
NotNull(x) == x.k # "null"
\* x ?? null is not null: the field holds a value
IsSet(x) == x.k \notin {"null", "undefined"}

\* `new Date() > new Date(x)`: new Date(null) is the epoch, new Date(undefined)
\* is an Invalid Date and every comparison with it is false.
NowIsAfter(t, x) ==
    CASE x.k = "undefined" -> FALSE
      [] x.k = "null" -> t > 0
      [] OTHER -> t > x.v

\* JSON.stringify of one value: a Date becomes its ISO string.
ToJSON(x) == IF x.k = "date" THEN IsoOf(x.v) ELSE x

(***************************************************************************)
(* Addresses.  An address string is its four octets; ip.toLong and         *)
(* ip.fromLong convert to and from the 32-bit number.                      *)
(***************************************************************************)
NoAddress == << >>
toLong(a) == ((a[1] * 256 + a[2]) * 256 + a[3]) * 256 + a[4]
fromLong(n) == << n \div 16777216, (n \div 65536) % 256, (n \div 256) % 256, n % 256 >>

\* ip.isV4Format: four groups of one to three digits
isV4Format(a) == Len(a) = 4 /\ \A i \in 1..4 : a[i] \in 0..999

\* WG_DEFAULT_ADDRESS, a CIDR: base address and prefix length
WG_DEFAULT_ADDRESS == [base |-> <<10, 8, 0, 0>>, prefix |-> 29]

RECURSIVE Pow2(_)
Pow2(n) == IF n = 0 THEN 1 ELSE 2 * Pow2(n - 1)

\* ip.cidrSubnet(cidr): first and last host address of the subnet
cidrSubnet(cidr) ==
    LET size == Pow2(32 - cidr.prefix)
        network == (toLong(cidr.base) \div size) * size
        broadcast == network + size - 1
    IN  [ firstAddress |-> fromLong(IF size <= 2 THEN network ELSE network + 1),
          lastAddress |-> fromLong(IF size <= 2 THEN broadcast ELSE broadcast - 1) ]

(***************************************************************************)
(* Time.                                                                   *)
(***************************************************************************)
DayMs == 24 * 60 * 60 * 1000
\* the clock when the process starts: noon of day 1
StartOfClock == DayMs + 12 * 60 * 60 * 1000
\* how far the clock moves in one step: four periods of the sweep
TickSteps == { 4 * 60 * 1000 }
\* Date.now() + 5 * 60 * 1000 and Date.now() + 10 * 1000
LinkLifetime == 5 * 60 * 1000
EraseGrace == 10 * 1000

\* new Date(expireDate) with setHours(23), setMinutes(59), setSeconds(59):
\* the end of day `day`
EndOfDay(day) == day * DayMs + (23 * 60 * 60 + 59 * 60 + 59) * 1000

(***************************************************************************)
(* The snapshot: [server, clients], clients a function from ids to peers.  *)
(***************************************************************************)
NoClients == [id \in {} |-> Null]

\* Object.entries / Object.values visit the ids in insertion order, which
\* the model takes to be ascending.
RECURSIVE SeqOfIds(_)
SeqOfIds(S) ==
    IF S = {} THEN << >>
    ELSE LET m == CHOOSE x \in S : \A y \in S : x <= y
         IN  << m >> \o SeqOfIds(S \ {m})

\* JSON.stringify(config): Dates are written as ISO strings
StringifyClient(c) ==
    [c EXCEPT !.createdAt = ToJSON(@), !.updatedAt = ToJSON(@),
              !.expiredAt = ToJSON(@), !.oneTimeLinkExpiresAt = ToJSON(@)]

StringifyEnabledOnly(cfg) ==
    [ kind |-> "json",
      value |-> [ server |-> cfg.server,
                  clients |-> [id \in { i \in DOMAIN cfg.clients : cfg.clients[i].enabled } |->
                                  StringifyClient(cfg.clients[id])] ] ]

Stringify(cfg) ==
    [ kind |-> "json",
      value |-> [ server |-> cfg.server,
                  clients |-> [id \in DOMAIN cfg.clients |->
                                  StringifyClient(cfg.clients[id])] ] ]

\* JSON.parse(text) succeeds on JSON text only
CanParse(text) == text.kind = "json"
Parse(text) == text.value

\* The [Peer] block __saveConfig renders for one client
PeerBlock(id, c) ==
    [ id |-> id, name |-> c.name, publicKey |-> c.publicKey,
      preSharedKey |-> c.preSharedKey, allowedIP |-> c.address ]

RECURSIVE RenderPeersMissingCheck(_, _)
RenderPeersMissingCheck(ids, clients) ==
    IF ids = << >> THEN << >>
    ELSE << PeerBlock(Head(ids), clients[Head(ids)]) >>
             \o RenderPeersMissingCheck(Tail(ids), clients)

\* the loop of __saveConfig: `if (!client.enabled) continue;`
RECURSIVE RenderPeers(_, _)
RenderPeers(ids, clients) ==
    IF ids = << >> THEN << >>
    ELSE IF ~clients[Head(ids)].enabled
         THEN RenderPeers(Tail(ids), clients)
         ELSE << PeerBlock(Head(ids), clients[Head(ids)]) >>
                  \o RenderPeers(Tail(ids), clients)

\* the text __saveConfig writes to wg0.conf
Render(cfg) ==
    [ kind |-> "conf",
      privateKey |-> cfg.server.privateKey,
      address |-> cfg.server.address,
      peers |-> RenderPeers(SeqOfIds(DOMAIN cfg.clients), cfg.clients) ]

AbsentFile == [kind |-> "absent"]
GarbageFile == [kind |-> "garbage"]

\* `wg syncconf wg0 <(wg-quick strip wg0)`: the daemon's peer table becomes
\* the peers of the file
PeerTable(conf) ==
    IF conf.kind # "conf" THEN {}
    ELSE { [publicKey |-> conf.peers[i].publicKey, allowedIP |-> conf.peers[i].allowedIP] :
             i \in 1..Len(conf.peers) }

(***************************************************************************)
(* What is on disk when the process starts: nothing (first boot), or the   *)
(* snapshot an earlier run persisted (every timestamp an ISO string, the   *)
(* one-time-link fields absent until a link is generated).                 *)
(***************************************************************************)
PersistedPeer(id, enabled, expiredAt, link, linkExpiresAt) ==
    [ id |-> id, name |-> "a",
      address |-> fromLong(toLong(cidrSubnet(WG_DEFAULT_ADDRESS).firstAddress) + id),
      privateKey |-> "priv", publicKey |-> << "pub", id >>, preSharedKey |-> "psk",
      createdAt |-> IsoOf(0), updatedAt |-> IsoOf(0),
      expiredAt |-> expiredAt, enabled |-> enabled,
      oneTimeLink |-> link, oneTimeLinkExpiresAt |-> linkExpiresAt ]

PersistedServer ==
    [ privateKey |-> "server-priv", publicKey |-> "server-pub",
      address |-> cidrSubnet(WG_DEFAULT_ADDRESS).firstAddress,
      firstAddress |-> NoAddress ]

\* four peers holding every address of the pool: one expired yesterday,
\* one expiring tomorrow, one disabled and expired, one expired with a
\* stale link
PersistedClients ==
    (1 :> PersistedPeer(1, TRUE, IsoOf(EndOfDay(0)), Undefined, Undefined)) @@
    (2 :> PersistedPeer(2, TRUE, IsoOf(EndOfDay(2)), Undefined, Undefined)) @@
    (3 :> PersistedPeer(3, FALSE, IsoOf(EndOfDay(0)), Null, Null)) @@
    (4 :> PersistedPeer(4, TRUE, IsoOf(EndOfDay(0)), StrOf(1), IsoOf(EndOfDay(0))))

PersistedFile ==
    [ kind |-> "json", value |-> [server |-> PersistedServer, clients |-> PersistedClients] ]

(***************************************************************************)
(* The edits of one peer (lines 311-382), at time t.                       *)
(***************************************************************************)
Stamp(c, t) == [c EXCEPT !.updatedAt = DateOf(t)]

EnableEdit(c, t) == Stamp([c EXCEPT !.enabled = TRUE], t)
DisableEditReleasingAddress(c, t) ==
    Stamp([c EXCEPT !.enabled = FALSE, !.address = NoAddress], t)
DisableEdit(c, t) == Stamp([c EXCEPT !.enabled = FALSE], t)
NameEdit(c, name, t) == Stamp([c EXCEPT !.name = name], t)
AddressEdit(c, address, t) == Stamp([c EXCEPT !.address = address], t)

\* expireDate is a day, or 0 - 1 for none
NoDate == 0 - 1
ExpireDateEdit(c, day, t) ==
    Stamp([c EXCEPT !.expiredAt = IF day # NoDate THEN DateOf(EndOfDay(day)) ELSE Null], t)

GenerateLinkEditShortLived(c, token, t) ==
    Stamp([c EXCEPT !.oneTimeLink = StrOf(token),
                    !.oneTimeLinkExpiresAt = DateOf(t + EraseGrace)], t)

GenerateLinkEdit(c, token, t) ==
    Stamp([c EXCEPT !.oneTimeLink = StrOf(token),
                    !.oneTimeLinkExpiresAt = DateOf(t + LinkLifetime)], t)

\* `// client.oneTimeLink = null;` is commented out: only the expiry moves
EraseLinkEdit(c, t) ==
    Stamp([c EXCEPT !.oneTimeLinkExpiresAt = DateOf(t + EraseGrace)], t)

(***************************************************************************)
(* The two sweeps of cronJobEveryMinute.                                   *)
(***************************************************************************)
Expired(c, t) ==
    /\ c.enabled = TRUE
    /\ NotNull(c.expiredAt)
    /\ NowIsAfter(t, c.expiredAt)

ExpirySweepIgnoringEnabled(clients, t, feature) ==
    [id \in DOMAIN clients |->
        IF feature /\ NotNull(clients[id].expiredAt) /\ NowIsAfter(t, clients[id].expiredAt)
        THEN DisableEdit(clients[id], t)
        ELSE clients[id]]

ExpirySweep(clients, t, feature) ==
    [id \in DOMAIN clients |->
        IF feature /\ Expired(clients[id], t)
        THEN DisableEdit(clients[id], t)
        ELSE clients[id]]

LinkExpired(c, t) ==
    /\ NotNull(c.oneTimeLink)
    /\ NowIsAfter(t, c.oneTimeLinkExpiresAt)

LinkSweep(clients, t, feature) ==
    [id \in DOMAIN clients |->
        IF feature /\ LinkExpired(clients[id], t)
        THEN Stamp([clients[id] EXCEPT !.oneTimeLink = Null,
                                       !.oneTimeLinkExpiresAt = Null], t)
        ELSE clients[id]]

\* needSaveConfig after both loops
NeedSaveConfig(clients, t, expires, links) ==
    \/ expires /\ \E id \in DOMAIN clients : Expired(clients[id], t)
    \/ links /\ \E id \in DOMAIN clients :
                   LinkExpired(ExpirySweep(clients, t, expires)[id], t)

(***************************************************************************)
(* createClient's address scan (lines 252-273).  The body of the loop      *)
(* reads `clients`, which no scope of the file binds: in strict mode the   *)
(* first iteration throws a ReferenceError.  With no address strictly      *)
(* between the first and the last the loop does not run and `address`      *)
(* stays undefined.                                                        *)
(***************************************************************************)
ScanAddress(cfg) ==
    LET cidr == cidrSubnet(WG_DEFAULT_ADDRESS)
        from == toLong(cidr.firstAddress) + 1
        to == toLong(cidr.lastAddress) - 1
    IN  IF from <= to
        THEN [err |-> "ReferenceError", address |-> NoAddress]
        ELSE [err |-> "none", address |-> NoAddress]

\* the peer createClient builds (lines 275-294)
NewClient(id, name, address, day, t) ==
    [ id |-> id, name |-> name, address |-> address,
      privateKey |-> "priv", publicKey |-> << "pub", id >>, preSharedKey |-> "psk",
      createdAt |-> DateOf(t), updatedAt |-> DateOf(t),
      expiredAt |-> IF day # NoDate THEN DateOf(EndOfDay(day)) ELSE Null,
      enabled |-> TRUE,
      oneTimeLink |-> Undefined, oneTimeLinkExpiresAt |-> Undefined ]

\* crypto.randomUUID(): an id no peer has
FreshId(clients) == CHOOSE n \in 1..(Cardinality(DOMAIN clients) + 1) : n \notin DOMAIN clients

\* the addresses strictly between the subnet's first and last address
Pool ==
    LET cidr == cidrSubnet(WG_DEFAULT_ADDRESS)
    IN  { fromLong(n) : n \in (toLong(cidr.firstAddress) + 1)..(toLong(cidr.lastAddress) - 1) }

HeldAddresses(clients) == { clients[id].address : id \in DOMAIN clients }

(***************************************************************************)
(* The steps of a handler, as functions of a world w: the registry, the    *)
(* files and the daemon, plus what the call has done so far (trace), how   *)
(* it ended (err) and which of its file or command calls fail (failAt, a   *)
(* set of positions in the order the call makes them, counted by io).      *)
(***************************************************************************)
\* the next step F runs unless the call has thrown (x is bound once, so that
\* the world a step leaves is computed once)
Then(w, F(_)) ==
    CHOOSE r \in { IF x.err # "none" THEN x ELSE F(x) : x \in {w} } : TRUE

Throw(w, err) == [w EXCEPT !.err = err]

\* one call of fs.readFile, fs.writeFile or Util.exec
Counted(w) == [w EXCEPT !.io = @ + 1]
Failing(w) == (w.io + 1) \in w.failAt

\* await fs.writeFile(wg0.json, JSON.stringify(config))
WriteJson(w, text) ==
    IF Failing(w)
    THEN [Counted(w) EXCEPT !.err = "WriteError", !.trace = Append(@, "json-failed")]
    ELSE [Counted(w) EXCEPT !.json = text, !.trace = Append(@, "json")]

\* await fs.writeFile(wg0.conf, result)
WriteConf(w, text) ==
    IF Failing(w)
    THEN [Counted(w) EXCEPT !.err = "WriteError", !.trace = Append(@, "conf-failed")]
    ELSE [Counted(w) EXCEPT !.conf = text, !.trace = Append(@, "conf")]

\* __saveConfig(config): both texts are computed before the first write
SaveConfigFiles(w, cfg) ==
    Then(WriteJson(w, Stringify(cfg)), LAMBDA x : WriteConf(x, Render(cfg)))

\* await Util.exec('wg syncconf wg0 <(wg-quick strip wg0)'): fails when the
\* interface does not exist
SyncConfig(w) ==
    IF Failing(w) \/ ~w.up
    THEN [Counted(w) EXCEPT !.err = "ExternalCommandError",
              !.trace = Append(@, IF w.up THEN "sync-failed" ELSE "sync-no-device")]
    ELSE [Counted(w) EXCEPT !.dmn = PeerTable(w.conf), !.trace = Append(@, "sync")]

\* await Util.exec('wg-quick down wg0').catch(() => {})
QuickDown(w) ==
    IF Failing(w) \/ ~w.up
    THEN [Counted(w) EXCEPT !.trace = Append(@, "down-failed")]
    ELSE [Counted(w) EXCEPT !.up = FALSE, !.dmn = {}, !.trace = Append(@, "down")]

\* await Util.exec('wg-quick up wg0'): fails when the interface exists
QuickUp(w) ==
    IF Failing(w) \/ w.up
    THEN [Counted(w) EXCEPT !.err = "ExternalCommandError", !.trace = Append(@, "up-failed")]
    ELSE [Counted(w) EXCEPT !.up = TRUE, !.dmn = PeerTable(w.conf), !.trace = Append(@, "up")]

\* the snapshot __buildConfig generates when wg0.json cannot be read or parsed
GeneratedConfig ==
    [ server |-> [ privateKey |-> "server-priv", publicKey |-> "server-pub",
                   address |-> NoAddress,
                   firstAddress |-> cidrSubnet(WG_DEFAULT_ADDRESS).firstAddress ],
      clients |-> NoClients ]

\* `wg genkey`, `wg pubkey`, `wg genpsk`: n calls of Util.exec
RECURSIVE GenerateKeys(_, _)
GenerateKeys(w, n) ==
    IF n = 0 THEN w
    ELSE IF Failing(w) THEN [Counted(w) EXCEPT !.err = "ExternalCommandError"]
    ELSE GenerateKeys(Counted(w), n - 1)

\* __buildConfig: this.__configPromise is assigned at once; it resolves to
\* the parsed file, or to a generated snapshot when reading or parsing threw
BuildConfig(w) ==
    IF ~Failing(w) /\ CanParse(w.json)
    THEN [Counted(w) EXCEPT !.cp = "resolved", !.cfg = Parse(w.json)]
    ELSE LET k == GenerateKeys(Counted(w), 2)
         IN  IF k.err # "none"
             THEN [k EXCEPT !.cp = "rejected"]
             ELSE [k EXCEPT !.cp = "resolved", !.cfg = GeneratedConfig]

\* getConfig
GetConfig(w) ==
    IF w.cp = "unset"
    THEN Then(Then(Then(Then(BuildConfig(w),
                   LAMBDA x : SaveConfigFiles(x, x.cfg)),
                   QuickDown), QuickUp), SyncConfig)
    ELSE IF w.cp = "rejected" THEN Throw(w, "ExternalCommandError")
    ELSE w

\* saveConfig
SaveConfig(w) ==
    Then(Then(GetConfig(w), LAMBDA x : SaveConfigFiles(x, x.cfg)), SyncConfig)

\* getClient
GetClient(w, id) ==
    Then(GetConfig(w),
         LAMBDA x : IF id \in DOMAIN x.cfg.clients THEN x ELSE Throw(x, "NotFound"))

\* a handler that edits one peer and saves
EditClient(w, id, Edit(_)) ==
    Then(Then(GetClient(w, id),
         LAMBDA x : [x EXCEPT !.cfg.clients[id] = Edit(@)]),
         SaveConfig)

(***************************************************************************)
(* The handlers.                                                           *)
(***************************************************************************)
Without(clients, id) == [i \in DOMAIN clients \ {id} |-> clients[i]]

\* createClient({ name, expiredDate })
CreateClientCall(w, name, day, t) ==
    IF name = "" THEN Throw(w, "Missing: Name")
    ELSE Then(Then(GetConfig(w), LAMBDA x : GenerateKeys(x, 3)),
              LAMBDA x :
                LET scan == ScanAddress(x.cfg)
                    id == FreshId(x.cfg.clients)
                IN  IF scan.err # "none" THEN Throw(x, scan.err)
                    ELSE IF scan.address = NoAddress
                    THEN Throw(x, "Maximum number of clients reached.")
                    ELSE SaveConfig([x EXCEPT !.cfg.clients =
                            @ @@ (id :> NewClient(id, name, scan.address, day, t))]))

DeleteClientCallAlwaysSaves(w, id) ==
    Then(GetConfig(w),
         LAMBDA x : SaveConfig([x EXCEPT !.cfg.clients = Without(@, id)]))

\* deleteClient({ clientId })
DeleteClientCall(w, id) ==
    Then(GetConfig(w),
         LAMBDA x : IF id \in DOMAIN x.cfg.clients
                    THEN SaveConfig([x EXCEPT !.cfg.clients = Without(@, id)])
                    ELSE x)

UpdateClientAddressCallLateCheck(w, id, address, t) ==
    Then(Then(Then(GetClient(w, id),
         LAMBDA x : [x EXCEPT !.cfg.clients[id] = AddressEdit(@, address, t)]),
         LAMBDA x : IF isV4Format(address) THEN x ELSE Throw(x, "Invalid Address")),
         SaveConfig)

\* updateClientAddress({ clientId, address })
UpdateClientAddressCall(w, id, address, t) ==
    Then(Then(Then(GetClient(w, id),
         LAMBDA x : IF isV4Format(address) THEN x ELSE Throw(x, "Invalid Address")),
         LAMBDA x : [x EXCEPT !.cfg.clients[id] = AddressEdit(@, address, t)]),
         SaveConfig)

\* __reloadConfig
ReloadConfig(w) == Then(BuildConfig(w), SyncConfig)

\* restoreConfiguration(config)
RestoreConfigurationCall(w, text) ==
    IF ~CanParse(text) THEN Throw(w, "SyntaxError")
    ELSE Then(SaveConfigFiles(w, Parse(text)), ReloadConfig)

CronJobCallSavingEveryTime(w, t, expires, links) ==
    Then(GetConfig(w),
         LAMBDA x :
           SaveConfig([x EXCEPT !.cfg.clients =
                         LinkSweep(ExpirySweep(x.cfg.clients, t, expires), t, links)]))

\* cronJobEveryMinute
CronJobCall(w, t, expires, links) ==
    Then(GetConfig(w),
         LAMBDA x :
           LET swept == LinkSweep(ExpirySweep(x.cfg.clients, t, expires), t, links)
               y == [x EXCEPT !.cfg.clients = swept]
           IN  IF NeedSaveConfig(x.cfg.clients, t, expires, links)
               THEN SaveConfig(y)
               ELSE y)

(***************************************************************************)
(* The state.                                                              *)
(***************************************************************************)
\* the inputs of the calls
Names == { "", "b" }
ClientIds == { 1, 9 }
AddressInputs == { <<10, 8, 0, 3>>, <<10, 8, 0>> }
Days == { NoDate, 0, 2 }
Tokens == { 1 }
RestoreInputs == { GarbageFile, PersistedFile }

\* the calls that may be in flight at once
Slots == { 1, 2 }
Idle == [ pc |-> "idle", op |-> "none", id |-> 0, phase |-> "none",
          json |-> AbsentFile, conf |-> AbsentFile, trace |-> << >>, err |-> "none" ]

ClockValues == { StartOfClock + n * 4 * 60 * 1000 : n \in 0..MaxTicks }

Init ==
    /\ configPromise = "unset"
    /\ config = GeneratedConfig
    /\ jsonFile \in { AbsentFile, PersistedFile }
    /\ confFile = IF CanParse(jsonFile) THEN Render(Parse(jsonFile)) ELSE AbsentFile
    /\ ifaceUp = FALSE
    /\ daemon = {}
    /\ now = StartOfClock
    /\ expiresFeature \in BOOLEAN
    /\ linksFeature \in BOOLEAN
    /\ linkIssuedAt = [id \in ClientIds |-> NoDate]
    /\ calls = [s \in Slots |-> Idle]
    /\ sweep = [busy |-> FALSE, skipped |-> FALSE]

\* the world a call starts in
World(failAt) ==
    [ cp |-> configPromise, cfg |-> config, json |-> jsonFile, conf |-> confFile,
      up |-> ifaceUp, dmn |-> daemon,
      trace |-> << >>, err |-> "none", io |-> 0, failAt |-> failAt ]

\* the world is written back
Settle(w) ==
    /\ configPromise' = w.cp
    /\ config' = w.cfg
    /\ jsonFile' = w.json
    /\ confFile' = w.conf
    /\ ifaceUp' = w.up
    /\ daemon' = w.dmn

\* the call returns or throws
Return(w) ==
    /\ Settle(w)
    /\ UNCHANGED << now, expiresFeature, linksFeature, linkIssuedAt, calls, sweep >>

\* which calls of fs / Util.exec fail in a handler of Spec: none
NoFailure == {}

(***************************************************************************)
(* Spec: one action per handler.                                           *)
(***************************************************************************)
CreateClient ==
    \E name \in Names, day \in Days :
        Return(CreateClientCall(World(NoFailure), name, day, now))

DeleteClient ==
    \E id \in ClientIds :
        Return(DeleteClientCall(World(NoFailure), id))

EnableClient ==
    \E id \in ClientIds :
        Return(EditClient(World(NoFailure), id, LAMBDA c : EnableEdit(c, now)))

DisableClient ==
    \E id \in ClientIds :
        Return(EditClient(World(NoFailure), id, LAMBDA c : DisableEdit(c, now)))

UpdateClientName ==
    \E id \in ClientIds, name \in Names \ {""} :
        Return(EditClient(World(NoFailure), id, LAMBDA c : NameEdit(c, name, now)))

UpdateClientAddress ==
    \E id \in ClientIds, address \in AddressInputs :
        Return(UpdateClientAddressCall(World(NoFailure), id, address, now))

UpdateClientExpireDate ==
    \E id \in ClientIds, day \in Days :
        Return(EditClient(World(NoFailure), id, LAMBDA c : ExpireDateEdit(c, day, now)))

GenerateOneTimeLink ==
    \E id \in ClientIds, token \in Tokens :
        LET w == EditClient(World(NoFailure), id, LAMBDA c : GenerateLinkEdit(c, token, now))
        IN  /\ Settle(w)
            /\ linkIssuedAt' = IF id \in DOMAIN w.cfg.clients /\ w.cp = "resolved"
                                  /\ w.cfg.clients[id].oneTimeLinkExpiresAt = DateOf(now + LinkLifetime)
                               THEN [linkIssuedAt EXCEPT ![id] = now]
                               ELSE linkIssuedAt
            /\ UNCHANGED << now, expiresFeature, linksFeature, calls, sweep >>

EraseOneTimeLink ==
    \E id \in ClientIds :
        Return(EditClient(World(NoFailure), id, LAMBDA c : EraseLinkEdit(c, now)))

GetClientRead ==
    \E id \in ClientIds :
        Return(GetClient(World(NoFailure), id))

BackupConfiguration ==
    Return(GetConfig(World(NoFailure)))

RestoreConfiguration ==
    \E text \in RestoreInputs :
        Return(RestoreConfigurationCall(World(NoFailure), text))

CronJobEveryMinute ==
    Return(CronJobCall(World(NoFailure), now, expiresFeature, linksFeature))

\* time passes
Tick ==
    /\ \E d \in TickSteps : now' = now + d /\ now' \in ClockValues
    /\ UNCHANGED << configPromise, config, jsonFile, confFile, ifaceUp, daemon,
                    expiresFeature, linksFeature, linkIssuedAt, calls, sweep >>

Next ==
    \/ CreateClient
    \/ DeleteClient
    \/ EnableClient
    \/ DisableClient
    \/ UpdateClientName
    \/ UpdateClientAddress
    \/ UpdateClientExpireDate
    \/ GenerateOneTimeLink
    \/ EraseOneTimeLink
    \/ GetClientRead
    \/ BackupConfiguration
    \/ RestoreConfiguration
    \/ CronJobEveryMinute
    \/ Tick

Spec == Init /\ [][Next]_vars

(***************************************************************************)
(* SpecBackup: the handlers of Spec that stamp, remove or sweep a peer,    *)
(* and restoreConfiguration given what backupConfiguration returns.        *)
(***************************************************************************)
\* backupConfiguration, then restoreConfiguration(backup)
RestoreBackup ==
    LET backup == GetConfig(World(NoFailure))
    IN  /\ backup.err = "none"
        /\ Return(RestoreConfigurationCall(
                     [backup EXCEPT !.trace = << >>, !.io = 0], Stringify(backup.cfg)))

NextBackup ==
    \/ BackupConfiguration
    \/ RestoreBackup
    \/ DeleteClient
    \/ EnableClient
    \/ DisableClient
    \/ UpdateClientExpireDate
    \/ GenerateOneTimeLink
    \/ CronJobEveryMinute
    \/ Tick

SpecBackup == Init /\ [][NextBackup]_vars

(***************************************************************************)
(* SpecFaults: the handlers run one at a time, as in Spec, and one of the  *)
(* file or command calls a handler makes may throw.                        *)
(***************************************************************************)
\* no call fails, or the k-th call of fs / Util.exec the handler makes does
Faults == { {} } \cup { {k} : k \in 1..9 }

DisableClientFaulty ==
    \E id \in ClientIds, f \in Faults :
        Return(EditClient(World(f), id, LAMBDA c : DisableEdit(c, now)))

DeleteClientFaulty ==
    \E id \in ClientIds, f \in Faults :
        Return(DeleteClientCall(World(f), id))

RestoreConfigurationFaulty ==
    \E text \in RestoreInputs, f \in Faults :
        Return(RestoreConfigurationCall(World(f), text))

CronJobEveryMinuteFaulty ==
    \E f \in Faults :
        Return(CronJobCall(World(f), now, expiresFeature, linksFeature))

NextFaults ==
    \/ DisableClientFaulty
    \/ DeleteClientFaulty
    \/ RestoreConfigurationFaulty
    \/ CronJobEveryMinuteFaulty
    \/ Tick

SpecFaults == Init /\ [][NextFaults]_vars

(***************************************************************************)
(* SpecSweeps: after the snapshot is loaded nothing but the scheduler      *)
(* calls the registry.  A sweep may meet a failing file or command call;   *)
(* failures are transient, so sweeps that meet none keep happening.        *)
(***************************************************************************)
NextSweeps ==
    \/ BackupConfiguration
    \/ CronJobEveryMinute
    \/ CronJobEveryMinuteFaulty
    \/ Tick

SpecSweeps == Init /\ [][NextSweeps]_vars /\ WF_vars(CronJobEveryMinute)

(***************************************************************************)
(* SpecAsync: a call is a chain of steps, one per await.  A call is a      *)
(* record [pc, op, id, phase, json, conf, trace, err]: where it stands,    *)
(* the handler and its clientId, whether its __saveConfig belongs to the   *)
(* first getConfig ("load"), to saveConfig ("save") or to                  *)
(* restoreConfiguration ("restore"), the two texts __saveConfig computed,  *)
(* what the call has done and how it ended.                                *)
(*                                                                         *)
(* restoreConfiguration replaces the object the registry lives in; the     *)
(* calls that still hold the old object are not modelled, so a restore     *)
(* starts when no other call is in flight and runs alone.                  *)
(***************************************************************************)
AsyncOps == { "disableClient", "deleteClient", "createClient" }
AsyncIds == { 1 }

\* the failures of a step that makes one call of fs / exec, or up to three
OneCall == { {}, {1} }
BuildCalls == { {}, {1}, {2} }

\* the world a step of call s runs in
StepWorld(s, failAt) == [World(failAt) EXCEPT !.trace = calls[s].trace]

NextPcSyncAfterJson(pc, phase) ==
    CASE pc = "build" -> IF phase = "restore" THEN "sync" ELSE "json"
      [] pc = "json" -> IF phase = "save" THEN "sync" ELSE "conf"
      [] pc = "conf" ->
            IF phase = "load" THEN "down" ELSE IF phase = "restore" THEN "build" ELSE "done"
      [] pc = "down" -> "up"
      [] pc = "up" -> "sync"
      [] pc = "sync" -> IF phase = "load" THEN "await" ELSE IF phase = "save" THEN "conf" ELSE "done"
      [] OTHER -> "done"

\* the await that follows each await of getConfig, saveConfig, __saveConfig
\* and restoreConfiguration
NextPc(pc, phase) ==
    CASE pc = "build" -> IF phase = "restore" THEN "sync" ELSE "json"
      [] pc = "json" -> "conf"
      [] pc = "conf" ->
            IF phase = "load" THEN "down" ELSE IF phase = "restore" THEN "build" ELSE "sync"
      [] pc = "down" -> "up"
      [] pc = "up" -> "sync"
      [] pc = "sync" -> IF phase = "load" THEN "await" ELSE "done"
      [] OTHER -> "done"

\* a step of call s has left world w: the state is written back and the call
\* moves on, or ends with the error
Advance(s, w) ==
    /\ Settle(w)
    /\ calls' = [calls EXCEPT ![s] =
                   [@ EXCEPT !.trace = w.trace, !.err = w.err,
                             !.pc = IF w.err # "none" THEN "done"
                                    ELSE NextPc(calls[s].pc, calls[s].phase)]]
    /\ UNCHANGED << now, expiresFeature, linksFeature, linkIssuedAt, sweep >>

Restoring == \E s \in Slots : calls[s].op = "restoreConfiguration"

\* a handler is called and reaches its first await: the first caller of
\* getConfig assigns this.__configPromise and loads, the others await it
Begin(s, op, id) ==
    /\ calls[s].pc = "idle"
    /\ IF configPromise = "unset"
       THEN /\ configPromise' = "pending"
            /\ calls' = [calls EXCEPT ![s] =
                           [Idle EXCEPT !.pc = "build", !.op = op, !.id = id, !.phase = "load"]]
       ELSE /\ configPromise' = configPromise
            /\ calls' = [calls EXCEPT ![s] =
                           [Idle EXCEPT !.pc = "await", !.op = op, !.id = id]]
    /\ UNCHANGED << config, jsonFile, confFile, ifaceUp, daemon, now,
                    expiresFeature, linksFeature, linkIssuedAt >>

StartCall ==
    \E s \in Slots, op \in AsyncOps, id \in AsyncIds :
        /\ ~Restoring
        /\ Begin(s, op, id)
        /\ UNCHANGED sweep

\* restoreConfiguration(config): JSON.parse, then __saveConfig(_config)
\* computes its two texts and starts writing
StartRestore ==
    \E s \in Slots, text \in RestoreInputs :
        /\ \A t \in Slots : calls[t].pc = "idle"
        /\ calls' = [calls EXCEPT ![s] =
              IF CanParse(text)
              THEN [Idle EXCEPT !.pc = "json", !.op = "restoreConfiguration",
                                !.phase = "restore",
                                !.json = Stringify(Parse(text)),
                                !.conf = Render(Parse(text))]
              ELSE [Idle EXCEPT !.pc = "done", !.op = "restoreConfiguration",
                                !.err = "SyntaxError"]]
        /\ UNCHANGED << configPromise, config, jsonFile, confFile, ifaceUp, daemon, now,
                        expiresFeature, linksFeature, linkIssuedAt, sweep >>

SchedulerTickReentrant ==
    /\ ~Restoring
    /\ \E s \in Slots : Begin(s, "cronJobEveryMinute", 0)
    /\ sweep' = [busy |-> TRUE, skipped |-> FALSE]

\* the scheduler's timer fires: a sweep starts, unless one is still running,
\* and then the tick is skipped
SchedulerTick ==
    IF sweep.busy
    THEN /\ sweep' = [sweep EXCEPT !.skipped = TRUE]
         /\ UNCHANGED << configPromise, config, jsonFile, confFile, ifaceUp, daemon, now,
                         expiresFeature, linksFeature, linkIssuedAt, calls >>
    ELSE /\ ~Restoring
         /\ \E s \in Slots : Begin(s, "cronJobEveryMinute", 0)
         /\ sweep' = [busy |-> TRUE, skipped |-> FALSE]

\* __buildConfig's promise settles; the loader's __saveConfig computes its
\* texts at once
Build ==
    \E s \in Slots, f \in BuildCalls :
        /\ calls[s].pc = "build"
        /\ LET w == BuildConfig(StepWorld(s, f))
           IN  /\ Settle(w)
               /\ calls' = [calls EXCEPT ![s] =
                     [@ EXCEPT !.err = w.err,
                               !.pc = IF w.err # "none" THEN "done"
                                      ELSE NextPc("build", calls[s].phase),
                               !.json = IF calls[s].phase = "load" THEN Stringify(w.cfg) ELSE @,
                               !.conf = IF calls[s].phase = "load" THEN Render(w.cfg) ELSE @]]
        /\ UNCHANGED << now, expiresFeature, linksFeature, linkIssuedAt, sweep >>

\* what the handler does between `await this.getConfig()` and its next await
Resumed(c, w, t, expires, links) ==
    CASE c.op \in {"enableClient", "disableClient"} ->
            IF c.id \notin DOMAIN w.cfg.clients THEN Throw(w, "NotFound")
            ELSE [w EXCEPT !.cfg.clients[c.id] =
                    IF c.op = "enableClient" THEN EnableEdit(@, t) ELSE DisableEdit(@, t)]
      [] c.op = "deleteClient" ->
            IF c.id \in DOMAIN w.cfg.clients
            THEN [w EXCEPT !.cfg.clients = Without(@, c.id)]
            ELSE w
      [] c.op = "cronJobEveryMinute" ->
            [w EXCEPT !.cfg.clients = LinkSweep(ExpirySweep(@, t, expires), t, links)]
      [] OTHER -> w

\* where the handler awaits next
ResumedPc(c, w, t, expires, links) ==
    CASE c.op \in {"enableClient", "disableClient"} -> "render"
      [] c.op = "deleteClient" -> IF c.id \in DOMAIN w.cfg.clients THEN "render" ELSE "done"
      [] c.op = "cronJobEveryMinute" ->
            IF NeedSaveConfig(w.cfg.clients, t, expires, links) THEN "render" ELSE "done"
      [] c.op = "createClient" -> "keys"
      [] OTHER -> "done"

Resume ==
    \E s \in Slots :
        /\ calls[s].pc = "await"
        /\ configPromise \in {"resolved", "rejected"}
        /\ LET w0 == StepWorld(s, NoFailure)
               w == IF configPromise = "rejected" THEN Throw(w0, "ExternalCommandError")
                    ELSE Resumed(calls[s], w0, now, expiresFeature, linksFeature)
           IN  /\ Settle(w)
               /\ calls' = [calls EXCEPT ![s] =
                     [@ EXCEPT !.err = w.err, !.phase = "none",
                               !.pc = IF w.err # "none" THEN "done"
                                      ELSE ResumedPc(calls[s], w0, now,
                                                     expiresFeature, linksFeature)]]
        /\ UNCHANGED << now, expiresFeature, linksFeature, linkIssuedAt, sweep >>

\* createClient: the three key commands, then the address scan
Keys ==
    \E s \in Slots, f \in OneCall :
        /\ calls[s].pc = "keys"
        /\ LET k == GenerateKeys(StepWorld(s, f), 3)
               scan == ScanAddress(k.cfg)
               id == FreshId(k.cfg.clients)
               w == IF k.err # "none" THEN k
                    ELSE IF scan.err # "none" THEN Throw(k, scan.err)
                    ELSE IF scan.address = NoAddress
                    THEN Throw(k, "Maximum number of clients reached.")
                    ELSE [k EXCEPT !.cfg.clients =
                            @ @@ (id :> NewClient(id, "b", scan.address, NoDate, now))]
           IN  /\ Settle(w)
               /\ calls' = [calls EXCEPT ![s] =
                     [@ EXCEPT !.err = w.err,
                               !.pc = IF w.err # "none" THEN "done" ELSE "render"]]
        /\ UNCHANGED << now, expiresFeature, linksFeature, linkIssuedAt, sweep >>

\* saveConfig: getConfig has returned, __saveConfig computes its two texts
RenderTexts ==
    \E s \in Slots :
        /\ calls[s].pc = "render"
        /\ configPromise = "resolved"
        /\ calls' = [calls EXCEPT ![s] =
              [@ EXCEPT !.pc = "json", !.phase = "save", !.trace = << >>,
                        !.json = Stringify(config), !.conf = Render(config)]]
        /\ UNCHANGED << configPromise, config, jsonFile, confFile, ifaceUp, daemon, now,
                        expiresFeature, linksFeature, linkIssuedAt, sweep >>

WriteJsonFile ==
    \E s \in Slots, f \in OneCall :
        calls[s].pc = "json" /\ Advance(s, WriteJson(StepWorld(s, f), calls[s].json))

WriteConfFile ==
    \E s \in Slots, f \in OneCall :
        calls[s].pc = "conf" /\ Advance(s, WriteConf(StepWorld(s, f), calls[s].conf))

BringDown ==
    \E s \in Slots, f \in OneCall :
        calls[s].pc = "down" /\ Advance(s, QuickDown(StepWorld(s, f)))

BringUp ==
    \E s \in Slots, f \in OneCall :
        calls[s].pc = "up" /\ Advance(s, QuickUp(StepWorld(s, f)))

Sync ==
    \E s \in Slots, f \in OneCall :
        calls[s].pc = "sync" /\ Advance(s, SyncConfig(StepWorld(s, f)))

\* the call returns or throws to its caller
Finish ==
    \E s \in Slots :
        /\ calls[s].pc = "done"
        /\ calls' = [calls EXCEPT ![s] = Idle]
        /\ sweep' = IF calls[s].op = "cronJobEveryMinute"
                    THEN [sweep EXCEPT !.busy = FALSE]
                    ELSE sweep
        /\ UNCHANGED << configPromise, config, jsonFile, confFile, ifaceUp, daemon, now,
                        expiresFeature, linksFeature, linkIssuedAt >>

NextAsync ==
    \/ StartCall
    \/ StartRestore
    \/ SchedulerTick
    \/ Build
    \/ Resume
    \/ Keys
    \/ RenderTexts
    \/ WriteJsonFile
    \/ WriteConfFile
    \/ BringDown
    \/ BringUp
    \/ Sync
    \/ Finish

InitAsync == Init /\ expiresFeature /\ linksFeature

SpecAsync == InitAsync /\ [][NextAsync]_vars

(***************************************************************************)
(* Properties of the registry, checked under Spec.                         *)
(***************************************************************************)
Loaded == configPromise = "resolved"
Peers == config.clients

\* what a call of the handler would leave, made in the current state
AfterCreate(name, day) == CreateClientCall(World(NoFailure), name, day, now)
AfterSweep == CronJobCall(World(NoFailure), now, expiresFeature, linksFeature)

\* the lowest address of the pool no peer holds
FreeAddresses(clients) == Pool \ HeldAddresses(clients)
LowestFree(clients) ==
    CHOOSE a \in FreeAddresses(clients) :
        \A b \in FreeAddresses(clients) : toLong(a) <= toLong(b)

\* C1: in every reachable state no two peers of the registry hold the same
\* address.
C1_AddressesDistinct ==
    Loaded => \A i, j \in DOMAIN Peers : i # j => Peers[i].address # Peers[j].address

\* C2: wherever the registry is loaded and an address of the pool is free,
\* createClient with a non-empty name succeeds: it adds one enabled peer that
\* holds the lowest free address, and leaves the snapshot persisted.
C2_CreateTakesLowestFree ==
    (Loaded /\ FreeAddresses(Peers) # {}) =>
        \A name \in Names \ {""}, day \in Days :
            LET r == AfterCreate(name, day)
                added == DOMAIN r.cfg.clients \ DOMAIN Peers
            IN  /\ r.err = "none"
                /\ Cardinality(added) = 1
                /\ \A id \in added :
                      /\ r.cfg.clients[id].address = LowestFree(Peers)
                      /\ r.cfg.clients[id].enabled = TRUE
                      /\ r.cfg.clients[id].name = name
                /\ \A id \in DOMAIN Peers :
                      id \in DOMAIN r.cfg.clients /\ r.cfg.clients[id] = Peers[id]
                /\ r.json = Stringify(r.cfg)

\* C3: wherever the registry is loaded and every address of the pool is held,
\* createClient with a non-empty name fails with "Maximum number of clients
\* reached.", adds no peer and writes nothing.
C3_CreateFailsWhenFull ==
    (Loaded /\ FreeAddresses(Peers) = {}) =>
        \A name \in Names \ {""}, day \in Days :
            LET r == AfterCreate(name, day)
            IN  /\ r.err = "Maximum number of clients reached."
                /\ r.cfg = config
                /\ r.json = jsonFile /\ r.conf = confFile
                /\ r.trace = << >>

\* how many [Peer] blocks of a rendered config are for peer id
BlocksFor(conf, id) ==
    Cardinality({ i \in 1..Len(conf.peers) : conf.peers[i].id = id })

\* C6: once the files are written, wg0.conf holds exactly one [Peer] block
\* (public key, address/32) for each enabled peer of the snapshot in
\* wg0.json and none for a disabled peer or for anything else, and wg0.json
\* holds every peer of the registry, enabled or not.
C6_RenderedEnabledOnly ==
    (Loaded /\ jsonFile.kind = "json" /\ confFile.kind = "conf") =>
        LET snap == jsonFile.value.clients
        IN  /\ \A id \in DOMAIN snap :
                  BlocksFor(confFile, id) = IF snap[id].enabled THEN 1 ELSE 0
            /\ \A i \in 1..Len(confFile.peers) :
                  LET b == confFile.peers[i]
                  IN  /\ b.id \in DOMAIN snap
                      /\ b.publicKey = snap[b.id].publicKey
                      /\ b.allowedIP = snap[b.id].address
            /\ DOMAIN snap = DOMAIN Peers
            /\ \A id \in DOMAIN snap : snap[id].enabled = Peers[id].enabled

\* C6 witness: files written by this process (a peer stamped after the start)
\* for a snapshot with an enabled and a disabled peer
C6_Witness ==
    /\ Loaded /\ jsonFile.kind = "json" /\ confFile.kind = "conf"
    /\ \E id \in DOMAIN jsonFile.value.clients :
          /\ jsonFile.value.clients[id].updatedAt = IsoOf(now)
          /\ ~jsonFile.value.clients[id].enabled
          /\ BlocksFor(confFile, id) = 0
    /\ \E id \in DOMAIN jsonFile.value.clients :
          jsonFile.value.clients[id].enabled /\ BlocksFor(confFile, id) = 1

\* the peers an expiry sweep is to disable at time t
Due(c, t) == c.enabled = TRUE /\ IsSet(c.expiredAt) /\ c.expiredAt.v < t

\* C7: in every reachable state one expiry sweep (with the feature on)
\* disables exactly the enabled peers whose expiredAt is set and in the past
\* and stamps their updatedAt; any other peer it leaves as it was, and the
\* whole cron job keeps that peer's enabled flag; with the feature off no
\* peer is disabled.
C7_ExpirySweepExact ==
    Loaded =>
        LET mid == ExpirySweep(Peers, now, expiresFeature)
            after == AfterSweep.cfg.clients
        IN  /\ DOMAIN mid = DOMAIN Peers /\ DOMAIN after = DOMAIN Peers
            /\ \A id \in DOMAIN Peers :
                  IF expiresFeature /\ Due(Peers[id], now)
                  THEN /\ mid[id] = [Peers[id] EXCEPT !.enabled = FALSE,
                                                      !.updatedAt = DateOf(now)]
                       /\ after[id].enabled = FALSE
                       /\ after[id].updatedAt = DateOf(now)
                  ELSE /\ mid[id] = Peers[id]
                       /\ after[id].enabled = Peers[id].enabled
                       /\ (after[id].updatedAt # Peers[id].updatedAt =>
                              after[id].oneTimeLink # Peers[id].oneTimeLink)

\* C7 witness: a sweep has run: peer 4, which no caller edits, was disabled
\* and stamped by it, while the peer expiring tomorrow and the disabled
\* expired peer are as persisted
C7_Witness ==
    /\ Loaded /\ expiresFeature
    /\ {2, 3, 4} \subseteq DOMAIN Peers
    /\ ~Peers[4].enabled /\ Peers[4].updatedAt = DateOf(now)
    /\ Peers[4].expiredAt = IsoOf(EndOfDay(0))
    /\ Peers[2] = PersistedClients[2] /\ Peers[2].enabled
    /\ Peers[3] = PersistedClients[3]

\* C8: in every reachable state and for every peer, oneTimeLink holds a
\* value if and only if oneTimeLinkExpiresAt does.
C8_LinkFieldsTogether ==
    Loaded => \A id \in DOMAIN Peers :
                 IsSet(Peers[id].oneTimeLink) <=> IsSet(Peers[id].oneTimeLinkExpiresAt)

\* the peers present before and after a step that is not a restore
Kept == IF Loaded /\ configPromise' = "resolved" /\ ~RestoreConfiguration
        THEN DOMAIN Peers \cap DOMAIN config'.clients
        ELSE {}

\* what generateOneTimeLink would leave of peer id, called in the current state
AfterGenerate(id, token) ==
    EditClient(World(NoFailure), id, LAMBDA c : GenerateLinkEdit(c, token, now)).cfg.clients[id]

\* generateOneTimeLink leaves a token and an expiry five minutes ahead
GenerateSetsLink ==
    Loaded => \A id \in DOMAIN Peers, token \in Tokens :
                 /\ IsSet(AfterGenerate(id, token).oneTimeLink)
                 /\ AfterGenerate(id, token).oneTimeLinkExpiresAt = DateOf(now + 5 * 60 * 1000)

\* a sweep with the feature on clears both fields of a link whose expiry has
\* passed, and no other link
SweepClearsExpiredLinks ==
    Loaded => \A id \in DOMAIN Peers :
                 LET c == Peers[id]
                     d == AfterSweep.cfg.clients[id]
                 IN  IsSet(c.oneTimeLink) =>
                        IF linksFeature /\ IsSet(c.oneTimeLinkExpiresAt)
                                        /\ now > c.oneTimeLinkExpiresAt.v
                        THEN d.oneTimeLink = Null /\ d.oneTimeLinkExpiresAt = Null
                        ELSE d.oneTimeLink = c.oneTimeLink
                               /\ d.oneTimeLinkExpiresAt = c.oneTimeLinkExpiresAt

\* C9 as stated: a generated link expires five minutes after the call, and a
\* token, once generated, is not cleared before a sweep with the feature on
\* runs later than five minutes after that call.
C9_TokenKeptFiveMinutes ==
    /\ []GenerateSetsLink
    /\ [][\A id \in Kept \cap ClientIds :
            (IsSet(Peers[id].oneTimeLink) /\ ~IsSet(config'.clients[id].oneTimeLink)
               /\ linkIssuedAt[id] # NoDate)
            => (linksFeature /\ now > linkIssuedAt[id] + LinkLifetime)]_vars

\* C9, amended: generateOneTimeLink leaves a token and an expiry exactly five
\* minutes after the call; a token is cleared only by a sweep with the
\* feature on that runs later than the peer's current oneTimeLinkExpiresAt
\* (which eraseOneTimeLink moves to 10 s after its own call), and that sweep
\* nulls both fields; every other step but a delete or a restore keeps it.
C9_TokenKeptUntilCurrentExpiry ==
    /\ []GenerateSetsLink
    /\ []SweepClearsExpiredLinks
    /\ [][\A id \in Kept :
            (IsSet(Peers[id].oneTimeLink) /\ ~IsSet(config'.clients[id].oneTimeLink))
            => /\ linksFeature
               /\ IsSet(Peers[id].oneTimeLinkExpiresAt)
               /\ now > Peers[id].oneTimeLinkExpiresAt.v
               /\ config'.clients = AfterSweep.cfg.clients
               /\ config'.clients[id].oneTimeLink = Null
               /\ config'.clients[id].oneTimeLinkExpiresAt = Null]_vars

\* C9 witness: a link generated by a call has been cleared by a sweep that
\* ran more than five minutes later
C9_Witness ==
    /\ Loaded /\ linksFeature
    /\ \E id \in ClientIds \cap DOMAIN Peers :
          /\ linkIssuedAt[id] # NoDate
          /\ now > linkIssuedAt[id] + LinkLifetime
          /\ Peers[id].oneTimeLink = Null
          /\ Peers[id].oneTimeLinkExpiresAt = Null
          /\ Peers[id].updatedAt = DateOf(now)

(***************************************************************************)
(* Properties of the steps of a call, checked under SpecAsync.             *)
(***************************************************************************)
Writes == { "json", "json-failed", "conf", "conf-failed" }
FailedWrites == { "json-failed", "conf-failed" }
Syncs == { "sync", "sync-failed", "sync-no-device" }

\* what call s has done since its __saveConfig began
Done(s) == calls[s].trace

\* C4: in every persist-and-sync step the JSON snapshot is written first,
\* then the rendered native config, and the reconciliation command is issued
\* only after both writes have succeeded; a write that fails is the last thing
\* the call does, its error reaches the caller and no reconciliation command
\* is issued.
C4_WritesThenSync ==
    \A s \in Slots :
        \A i \in 1..Len(Done(s)) :
            /\ Done(s)[i] \in {"conf", "conf-failed"} =>
                  /\ i = 2
                  /\ Done(s)[1] = "json"
            /\ Done(s)[i] \in {"json", "json-failed"} => i = 1
            /\ Done(s)[i] \in Syncs =>
                  /\ i > 2
                  /\ Done(s)[1] = "json"
                  /\ Done(s)[2] = "conf"
            /\ Done(s)[i] \in FailedWrites =>
                  /\ i = Len(Done(s))
                  /\ calls[s].pc = "done"
                  /\ calls[s].err = "WriteError"

\* one call has written both files and reconciled, another has failed on its
\* second write
C4_Witness ==
    \E s \in Slots, t \in Slots :
        /\ calls[s].op \in AsyncOps
        /\ calls[s].err = "none"
        /\ Done(s) = << "json", "conf", "sync" >>
        /\ Done(t) = << "json", "conf-failed" >>

\* C5: no reconciliation command is issued to the daemon before the
\* interface bring-up has completed successfully, whatever the first
\* operation is and however the callers interleave.
C5_NoSyncBeforeUp ==
    \A s \in Slots :
        \A i \in 1..Len(Done(s)) : Done(s)[i] # "sync-no-device"

Sweeping == { s \in Slots : calls[s].op = "cronJobEveryMinute" }

\* C10: at most one sweep is in progress at any time, its persist-and-sync
\* step included; a tick that fires during a sweep starts nothing.
C10_OneSweepAtATime ==
    /\ Cardinality(Sweeping) <= 1
    /\ Sweeping # {} => sweep.busy

\* a tick has fired and was skipped while the sweep was reconciling
C10_Witness ==
    \E s \in Sweeping :
        /\ sweep.skipped
        /\ calls[s].pc = "sync"
        /\ Done(s) = << "json", "conf" >>

(***************************************************************************)
(* Properties of load, of the handlers' failures and of restore, checked   *)
(* under Spec.                                                             *)
(***************************************************************************)
\* the registry is the one __buildConfig generated: no wg0.json could be read
FirstBoot == Loaded /\ config.server.privateKey = GeneratedConfig.server.privateKey
                    /\ config.server.firstAddress # NoAddress

\* C11: after a first boot the server identity of the snapshot has an address,
\* the first address of the configured subnet, and the interface block of
\* wg0.conf carries that address.
C11_FirstBootAddress ==
    FirstBoot =>
        /\ config.server.address = cidrSubnet(WG_DEFAULT_ADDRESS).firstAddress
        /\ confFile.kind = "conf" =>
              confFile.address = cidrSubnet(WG_DEFAULT_ADDRESS).firstAddress

\* the call that produced world w threw err and touched nothing: the
\* registry, both files and the daemon are as before and no file was written
\* and no command run
Rejected(w, err) ==
    /\ w.err = err
    /\ w.cp = configPromise
    /\ w.cfg = config
    /\ w.json = jsonFile
    /\ w.conf = confFile
    /\ w.dmn = daemon
    /\ w.up = ifaceUp
    /\ w.trace = << >>
    /\ w.io = 0

\* the per-peer mutators applied to clientId id in the current state
MutatorResults(id) ==
    { EditClient(World(NoFailure), id, LAMBDA c : EnableEdit(c, now)),
      EditClient(World(NoFailure), id, LAMBDA c : DisableEdit(c, now)),
      EditClient(World(NoFailure), id, LAMBDA c : EraseLinkEdit(c, now)) }
    \cup { EditClient(World(NoFailure), id, LAMBDA c : NameEdit(c, name, now)) :
             name \in Names }
    \cup { EditClient(World(NoFailure), id, LAMBDA c : ExpireDateEdit(c, day, now)) :
             day \in Days }
    \cup { EditClient(World(NoFailure), id, LAMBDA c : GenerateLinkEdit(c, token, now)) :
             token \in Tokens }
    \cup { UpdateClientAddressCall(World(NoFailure), id, address, now) :
             address \in AddressInputs }

\* C12: once the snapshot is loaded, a call that fails validation (create
\* with an empty name, get or a per-peer mutator on an unknown id, readdress
\* with an address that is not in IPv4 format) throws, leaves the registry as
\* it was and performs no persist and no reconciliation.
C12_RejectedCallsTouchNothing ==
    Loaded =>
        /\ \A day \in Days :
              Rejected(CreateClientCall(World(NoFailure), "", day, now), "Missing: Name")
        /\ \A id \in ClientIds \ DOMAIN Peers :
              /\ Rejected(GetClient(World(NoFailure), id), "NotFound")
              /\ \A w \in MutatorResults(id) : Rejected(w, "NotFound")
        /\ \A id \in ClientIds \cap DOMAIN Peers :
              \A address \in { a \in AddressInputs : ~isV4Format(a) } :
                 Rejected(UpdateClientAddressCall(World(NoFailure), id, address, now),
                          "Invalid Address")

\* a loaded registry that holds peer 1 and not peer 9, where each of the
\* three validations rejects a call
C12_Witness ==
    /\ Loaded
    /\ Peers # NoClients
    /\ \E id \in ClientIds \ DOMAIN Peers :
          GetClient(World(NoFailure), id).err = "NotFound"
    /\ \E id \in ClientIds \cap DOMAIN Peers, address \in AddressInputs :
          UpdateClientAddressCall(World(NoFailure), id, address, now).err = "Invalid Address"
    /\ \E day \in Days :
          CreateClientCall(World(NoFailure), "", day, now).err = "Missing: Name"

\* the world the next call starts in, once the call that left w has returned
Again(w) == [w EXCEPT !.err = "none", !.trace = << >>, !.io = 0]

\* C13: deleteClient on an absent id does nothing beyond the load its
\* getConfig may have to do (nothing at all once the snapshot is loaded); on
\* a present id it removes that peer only, leaves the others and the server
\* identity as they were and writes the snapshot; a second deleteClient of
\* the same id changes nothing and writes nothing.
C13_DeleteIdempotent ==
    \A id \in ClientIds :
        LET before == GetConfig(World(NoFailure))
            once == DeleteClientCall(World(NoFailure), id)
            twice == DeleteClientCall(Again(once), id)
        IN  before.cp = "resolved" =>
              /\ id \notin DOMAIN before.cfg.clients => once = before
              /\ id \in DOMAIN before.cfg.clients /\ before.err = "none" =>
                    /\ DOMAIN once.cfg.clients = DOMAIN before.cfg.clients \ {id}
                    /\ \A other \in DOMAIN once.cfg.clients :
                          once.cfg.clients[other] = before.cfg.clients[other]
                    /\ once.cfg.server = before.cfg.server
                    /\ once.json = Stringify(once.cfg)
                    /\ once.conf = Render(once.cfg)
                    /\ once.io > before.io
              /\ before.err = "none" => twice = Again(once)

\* peer 1 has been deleted from the loaded registry, the others are kept and
\* the file holds the registry without it
C13_Witness ==
    /\ Loaded
    /\ DOMAIN Peers = DOMAIN PersistedClients \ {1}
    /\ jsonFile = Stringify(config)
    /\ DeleteClientCall(World(NoFailure), 1) = World(NoFailure)

\* the registry after enableClient / disableClient of id differs from the
\* registry before in that peer's enabled and updatedAt only
SameButEnabled(before, after, id) ==
    /\ DOMAIN after = DOMAIN before
    /\ \A other \in DOMAIN before \ {id} : after[other] = before[other]
    /\ id \in DOMAIN before =>
          /\ after[id].id = before[id].id
          /\ after[id].publicKey = before[id].publicKey
          /\ after[id].address = before[id].address
          /\ after[id] = [before[id] EXCEPT !.enabled = after[id].enabled,
                                            !.updatedAt = after[id].updatedAt]

\* C14: enableClient and disableClient, in any state a sequence of calls can
\* reach, leave the peer's id, publicKey and address as they were and change
\* no field of any other peer; disabling and enabling again does too.
C14_EnableDisableFrame ==
    \A id \in ClientIds :
        LET before == GetConfig(World(NoFailure))
            enabled == EditClient(World(NoFailure), id, LAMBDA c : EnableEdit(c, now))
            disabled == EditClient(World(NoFailure), id, LAMBDA c : DisableEdit(c, now))
            cycled == EditClient(Again(disabled), id, LAMBDA c : EnableEdit(c, now))
        IN  before.cp = "resolved" =>
              /\ SameButEnabled(before.cfg.clients, enabled.cfg.clients, id)
              /\ SameButEnabled(before.cfg.clients, disabled.cfg.clients, id)
              /\ SameButEnabled(before.cfg.clients, cycled.cfg.clients, id)
              /\ enabled.cfg.server = before.cfg.server
              /\ disabled.cfg.server = before.cfg.server

\* peer 1 has been disabled by disableClient (no sweep is configured) and
\* still has its key and its address, next to three untouched peers
C14_Witness ==
    /\ Loaded
    /\ ~expiresFeature
    /\ DOMAIN Peers = DOMAIN PersistedClients
    /\ ~Peers[1].enabled
    /\ Peers[1].updatedAt = DateOf(now)
    /\ Peers[1].address = PersistedClients[1].address
    /\ EditClient(World(NoFailure), 1, LAMBDA c : EnableEdit(c, now)).cfg.clients[1].enabled

\* two snapshots with the same server identity, the same peer ids and, peer
\* by peer, the same fields (a timestamp held as a Date and the same instant
\* held as its ISO string are the same timestamp)
SameSnapshot(a, b) ==
    /\ a.server = b.server
    /\ DOMAIN a.clients = DOMAIN b.clients
    /\ \A id \in DOMAIN a.clients :
          StringifyClient(a.clients[id]) = StringifyClient(b.clients[id])

\* C15: backupConfiguration followed at once by restoreConfiguration of that
\* backup leaves a snapshot with the same server identity, peer ids and peer
\* fields, and getConfig, getClient and backupConfiguration then answer from
\* that snapshot.
C15_BackupRestoreRoundTrip ==
    LET backup == GetConfig(World(NoFailure))
        text == Stringify(backup.cfg)
        restored == RestoreConfigurationCall(Again(backup), text)
        later == GetConfig(Again(restored))
    IN  backup.err = "none" =>
          /\ restored.cp = "resolved"
          /\ SameSnapshot(restored.cfg, backup.cfg)
          /\ restored.json = text
          /\ later.cfg = restored.cfg
          /\ Stringify(later.cfg) = text
          /\ \A id \in ClientIds :
                LET got == GetClient(Again(restored), id)
                IN  IF id \in DOMAIN backup.cfg.clients
                    THEN got.err = "none" /\ got.cfg.clients[id] = restored.cfg.clients[id]
                    ELSE got.err = "NotFound"

\* a backup taken after a peer was stamped in this process has been restored:
\* the registry holds that stamp as the ISO string read back from wg0.json
C15_Witness ==
    /\ Loaded
    /\ jsonFile = Stringify(config)
    /\ \E id \in DOMAIN Peers :
          /\ Peers[id].updatedAt.k = "iso"
          /\ Peers[id].updatedAt.v >= StartOfClock

\* what a handler that left world `after` did once its getConfig had left
\* world `loaded`
SinceLoad(loaded, after) == SubSeq(after.trace, Len(loaded.trace) + 1, Len(after.trace))

\* the peers a sweep disabled or whose one-time link it cleared
SweptPeers(before, after) ==
    { id \in DOMAIN before :
        \/ before[id].enabled /\ ~after[id].enabled
        \/ before[id].oneTimeLink # after[id].oneTimeLink
        \/ before[id].oneTimeLinkExpiresAt # after[id].oneTimeLinkExpiresAt }

\* C18: a sweep that disabled a peer or cleared a link writes wg0.json once,
\* wg0.conf once and issues one reconciliation command, however many peers
\* it changed; a sweep that changed no peer writes nothing and issues no
\* command (beyond the load its getConfig does on the first call).
C18_OneSavePerSweep ==
    LET loaded == GetConfig(World(NoFailure))
        after == CronJobCall(World(NoFailure), now, expiresFeature, linksFeature)
        did == SinceLoad(loaded, after)
    IN  loaded.err = "none" /\ loaded.cp = "resolved" =>
          /\ DOMAIN after.cfg.clients = DOMAIN loaded.cfg.clients
          /\ IF SweptPeers(loaded.cfg.clients, after.cfg.clients) # {}
             THEN /\ Len(did) = 3
                  /\ did[1] = "json"
                  /\ did[2] = "conf"
                  /\ did[3] \in Syncs
                  /\ after.json = Stringify(after.cfg)
             ELSE /\ did = << >>
                  /\ after = loaded

\* the sweep is about to change two peers at once, and saves once
C18_Witness ==
    LET loaded == GetConfig(World(NoFailure))
        after == CronJobCall(World(NoFailure), now, expiresFeature, linksFeature)
    IN  /\ Loaded
        /\ Cardinality(SweptPeers(loaded.cfg.clients, after.cfg.clients)) >= 2
        /\ SinceLoad(loaded, after) = << "json", "conf", "sync" >>

(***************************************************************************)
(* Properties of load and of the steps of a call, under SpecAsync.         *)
(***************************************************************************)
\* the registry in memory is a freshly generated one, with no peers
FreshInMemory ==
    /\ configPromise = "resolved"
    /\ config.clients = NoClients
    /\ config.server.firstAddress # NoAddress

\* C16: while wg0.json holds a snapshot with peers, load never puts a freshly
\* generated empty snapshot in its place.
C16_PersistedNeverReplaced ==
    (jsonFile.kind = "json" /\ jsonFile.value.clients # NoClients) => ~FreshInMemory

(***************************************************************************)
(* Properties of a handler whose file or command call fails, checked under *)
(* SpecFaults.                                                             *)
(***************************************************************************)
\* the last thing the call did was a reconciliation command that failed
SyncFailed(w) ==
    /\ w.trace # << >>
    /\ w.trace[Len(w.trace)] \in { "sync-failed", "sync-no-device" }

\* the error reached the caller, and wg0.json holds the registry in memory
FailedInStep(w) ==
    /\ w.err # "none"
    /\ w.cp = "resolved"
    /\ w.json = Stringify(w.cfg)

\* the mutating handlers of SpecFaults, called in the current state
FaultyResults ==
    UNION { { EditClient(World(f), id, LAMBDA c : DisableEdit(c, now)),
              DeleteClientCall(World(f), id) } : id \in ClientIds, f \in Faults }
    \cup { RestoreConfigurationCall(World(f), text) : text \in RestoreInputs, f \in Faults }
    \cup { CronJobCall(World(f), now, expiresFeature, linksFeature) : f \in Faults }

\* C17: when the reconciliation command of a mutating call fails, the error
\* reaches the caller and wg0.json equals the registry in memory.
C17_SyncFailureKeepsJsonInStep ==
    \A w \in FaultyResults : SyncFailed(w) => FailedInStep(w)

(***************************************************************************)
(* Properties of calls in flight together, checked under SpecAsync.        *)
(***************************************************************************)
\* call s has written both files, reconciled and is about to return
Saved(s) ==
    /\ calls[s].pc = "done"
    /\ calls[s].err = "none"
    /\ Done(s) = << "json", "conf", "sync" >>

\* C19: when the calls in flight have all saved successfully, wg0.json holds
\* the registry in memory, wg0.conf is its render and the daemon's peer table
\* is its enabled peers.
C19_ConcurrentSavesAgree ==
    (\A s \in Slots : Saved(s)) =>
        /\ jsonFile = Stringify(config)
        /\ confFile = Render(config)
        /\ daemon = PeerTable(Render(config))

(***************************************************************************)
(* Properties of the sweeps over time, checked under SpecSweeps.           *)
(***************************************************************************)
\* the daemon's peer table holds peer id
Serving(id) == \E p \in daemon : p.publicKey = PersistedClients[id].publicKey

\* peer id is enabled in the loaded registry with expiredAt in the past
EnabledAndExpired(id) ==
    /\ Loaded
    /\ id \in DOMAIN Peers
    /\ Due(Peers[id], now)

====
